---- MODULE Spec2Model ----
(***************************************************************************)
(* Padding and stride arithmetic of a two-dimensional convolution, and     *)
(* mirror (reflect) padding of a grid, as worked in the notebook           *)
(* chapter_convolutional-neural-networks/padding-and-strides.ipynb.        *)
(*                                                                         *)
(* Spec    : comp_conv2d(conv2d, X) -- the convolution window is slid over *)
(*           the padded input, one axis after the other, and the shape of  *)
(*           the output is what the window positions add up to.            *)
(* SpecPad : nn.functional.pad(X, (l, r, t, b), mode='reflect') -- the     *)
(*           grid is extended by mirrored rows and columns.                *)
(***************************************************************************)
EXTENDS Integers, Sequences, FiniteSets, TLC

VARIABLES
    X_shape,    \* shape of the input tensor X, <<height, width>>
    conv2d,     \* the layer's arguments as given: kernel_size, padding, stride
    Xr,         \* shape of X after X.reshape((1, 1) + X.shape)
    padded,     \* <<height, width>> of the input with its padding added
    axis,       \* the axis the window is sliding along: 1 height, 2 width
    pos,        \* offset of the window on the padded axis
    count,      \* window positions that produced an output on this axis
    Y,          \* shape of the layer's output, built axis by axis
    result,     \* what comp_conv2d returns: Y.shape[2:]
    pc,         \* position in comp_conv2d
    X,          \* the grid handed to the mirror padding
    pad,        \* <<left, right, top, bottom>>, the order nn.functional.pad takes
    Xp,         \* the plane of the (1, 1, H, W) tensor being padded
    X_mirror_padded,    \* the padded grid, reshaped to two dimensions
    padPc,      \* position in the mirror padding
    model,      \* the transposed-convolution module: its kernel_size
    tX_shape,   \* shape of the input of the module, <<1, 1, L>>
    tI,         \* input elements spread over the output so far
    extent,     \* length of the output written so far, before cropping
    output,     \* shape of what the module returns
    tPc         \* position in the module's forward

vars == <<X_shape, conv2d, Xr, padded, axis, pos, count, Y, result, pc,
          X, pad, Xp, X_mirror_padded, padPc,
          model, tX_shape, tI, extent, output, tPc>>

convVars == <<X_shape, conv2d, Xr, padded, axis, pos, count, Y, result, pc>>
padVars == <<X, pad, Xp, X_mirror_padded, padPc>>
transposeVars == <<model, tX_shape, tI, extent, output, tPc>>

(***************************************************************************)
(* Bounds of the model.                                                    *)
(***************************************************************************)
MaxInput == 4
MaxKernel == 3
MaxPadding == 2
MaxStride == 3
MaxDim == 4
MaxLength == 8
MaxTransposeKernel == 5

(***************************************************************************)
(* The layer's arguments.  An argument is written <<v>> when the notebook  *)
(* gives one number (kernel_size=3) and <<a, b>> when it gives a pair      *)
(* (kernel_size=(5, 3)).                                                   *)
(***************************************************************************)
\* (variant) a pair taken width first
BroadcastReversed(arg) ==
    IF Len(arg) = 1 THEN <<arg[1], arg[1]>> ELSE <<arg[2], arg[1]>>

Broadcast(arg) == IF Len(arg) = 1 THEN <<arg[1], arg[1]>> ELSE arg

\* (variant) the argument taken as the total padding of the axis
TotalPaddingOneSide(perSide) == perSide

\* The layer pads `padding` rows or columns on either side of an axis, so the
\* total added along it is twice the argument.
TotalPadding(perSide) == 2 * perSide

LazyConv2d(kernel_size, padding, stride) ==
    [kernel_size |-> kernel_size, padding |-> padding, stride |-> stride]

DefaultStride == <<1>>

Kernel(a) == Broadcast(conv2d.kernel_size)[a]
Stride(a) == Broadcast(conv2d.stride)[a]
Padding(a) == TotalPadding(Broadcast(conv2d.padding)[a])

(***************************************************************************)
(* The output shape as the text states it.                                 *)
(***************************************************************************)
\* floor((n - k + p + s) / s), p the total padding of the axis
GeneralFormula(n, k, p, s) == (n - k + p + s) \div s

\* with p = k - 1: floor((n + s - 1) / s)
SimplifiedFormula(n, s) == (n + s - 1) \div s

\* and with n divisible by s as well: n / s
DivisibleFormula(n, s) == n \div s

\* without stride: n - k + p + 1
PaddedFormula(n, k, p) == n - k + p + 1

(***************************************************************************)
(* comp_conv2d                                                             *)
(***************************************************************************)
\* (variant) the window must stop one element short of the end of the axis
FitsShort(a) == pos + Kernel(a) < padded[a]

\* the window of Kernel(a) elements at offset pos lies within the padded axis
Fits(a) == pos + Kernel(a) <= padded[a]

Reshape ==
    /\ pc = "reshape"
    /\ Xr' = <<1, 1>> \o X_shape
    /\ pc' = "pad"
    /\ UNCHANGED <<X_shape, conv2d, padded, axis, pos, count, Y, result>>

PadInput ==
    /\ pc = "pad"
    /\ padded' = <<Xr[3] + Padding(1), Xr[4] + Padding(2)>>
    /\ axis' = 1
    /\ pos' = 0
    /\ count' = 0
    /\ Y' = <<Xr[1], 1>>
    /\ pc' = "slide"
    /\ UNCHANGED <<X_shape, conv2d, Xr, result>>

\* (variant) the window moves on by one element whatever the stride
SlideByOne ==
    /\ pc = "slide"
    /\ Fits(axis)
    /\ count' = count + 1
    /\ pos' = pos + 1
    /\ UNCHANGED <<X_shape, conv2d, Xr, padded, axis, Y, result, pc>>

Slide ==
    /\ pc = "slide"
    /\ Fits(axis)
    /\ count' = count + 1
    /\ pos' = pos + Stride(axis)
    /\ UNCHANGED <<X_shape, conv2d, Xr, padded, axis, Y, result, pc>>

\* (variant) the width axis goes on from the offset the height axis ended at
NextAxisKeepsOffset ==
    /\ pc = "slide"
    /\ ~Fits(axis)
    /\ axis = 1
    /\ Y' = Append(Y, count)
    /\ axis' = 2
    /\ count' = 0
    /\ UNCHANGED <<X_shape, conv2d, Xr, padded, pos, result, pc>>

NextAxis ==
    /\ pc = "slide"
    /\ ~Fits(axis)
    /\ axis = 1
    /\ Y' = Append(Y, count)
    /\ axis' = 2
    /\ pos' = 0
    /\ count' = 0
    /\ UNCHANGED <<X_shape, conv2d, Xr, padded, result, pc>>

LastAxis ==
    /\ pc = "slide"
    /\ ~Fits(axis)
    /\ axis = 2
    /\ Y' = Append(Y, count)
    /\ pc' = "strip"
    /\ UNCHANGED <<X_shape, conv2d, Xr, padded, axis, pos, count, result>>

Strip ==
    /\ pc = "strip"
    /\ result' = SubSeq(Y, 3, Len(Y))
    /\ pc' = "done"
    /\ UNCHANGED <<X_shape, conv2d, Xr, padded, axis, pos, count, Y>>

(***************************************************************************)
(* The calls of the notebook, and calls with arguments drawn from the      *)
(* bounds.  The kernel is never larger than the padded input: that is the  *)
(* only case the notebook works.                                           *)
(***************************************************************************)
NotebookX == <<8, 8>>

NotebookLayers ==
    { LazyConv2d(<<3>>, <<1>>, DefaultStride),
      LazyConv2d(<<5, 3>>, <<2, 1>>, DefaultStride),
      LazyConv2d(<<3>>, <<1>>, <<2>>),
      LazyConv2d(<<3, 5>>, <<0, 1>>, <<3, 4>>) }

Args(S) == {<<v>> : v \in S} \cup (S \X S)

Accepted(shape, layer) ==
    \A a \in 1..2 :
        Broadcast(layer.kernel_size)[a]
            <= shape[a] + TotalPadding(Broadcast(layer.padding)[a])

ConvInit ==
    /\ \/ /\ X_shape = NotebookX
          /\ conv2d \in NotebookLayers
       \/ /\ X_shape \in (1..MaxInput) \X (1..MaxInput)
          /\ conv2d \in { LazyConv2d(k, p, s) :
                            k \in Args(1..MaxKernel),
                            p \in Args(0..MaxPadding),
                            s \in Args(1..MaxStride) }
    /\ Accepted(X_shape, conv2d)
    /\ Xr = <<>>
    /\ padded = <<0, 0>>
    /\ axis = 1
    /\ pos = 0
    /\ count = 0
    /\ Y = <<>>
    /\ result = <<>>
    /\ pc = "reshape"

PadIdle ==
    /\ X = <<>>
    /\ pad = <<0, 0, 0, 0>>
    /\ Xp = <<>>
    /\ X_mirror_padded = <<>>
    /\ padPc = "idle"

TransposeIdle ==
    /\ model = [kernel_size |-> 1]
    /\ tX_shape = <<1, 1, 0>>
    /\ tI = 0
    /\ extent = 0
    /\ output = <<>>
    /\ tPc = "idle"

Init == ConvInit /\ PadIdle /\ TransposeIdle

Next ==
    \/ Reshape /\ UNCHANGED <<padVars, transposeVars>>
    \/ PadInput /\ UNCHANGED <<padVars, transposeVars>>
    \/ Slide /\ UNCHANGED <<padVars, transposeVars>>
    \/ NextAxis /\ UNCHANGED <<padVars, transposeVars>>
    \/ LastAxis /\ UNCHANGED <<padVars, transposeVars>>
    \/ Strip /\ UNCHANGED <<padVars, transposeVars>>

Spec == Init /\ [][Next]_vars

(***************************************************************************)
(* Mirror padding: nn.functional.pad(X.reshape((1, 1, H, W)),              *)
(* (left, right, top, bottom), mode='reflect').reshape(H', W')             *)
(***************************************************************************)
\* torch.arange(1, h * w + 1, 1).reshape(h, w)
Arange(h, w) == [r \in 1..h |-> [c \in 1..w |-> (r - 1) * w + c]]

Reverse(s) == [i \in 1..Len(s) |-> s[Len(s) + 1 - i]]

\* (variant) the two amounts of an axis taken the wrong way round
ReflectAxisSwapped(s, before, after) ==
    Reverse(SubSeq(s, 2, after + 1))
        \o s
        \o Reverse(SubSeq(s, Len(s) - before, Len(s) - 1))

\* (variant) the edge element is mirrored too
ReflectAxisWithEdge(s, before, after) ==
    Reverse(SubSeq(s, 1, before))
        \o s
        \o Reverse(SubSeq(s, Len(s) - after + 1, Len(s)))

\* One axis in reflect mode: the elements next to the first one, mirrored,
\* then the axis, then the elements next to the last one, mirrored.  The
\* edge element itself is not repeated.
ReflectAxis(s, before, after) ==
    Reverse(SubSeq(s, 2, before + 1))
        \o s
        \o Reverse(SubSeq(s, Len(s) - after, Len(s) - 1))

RECURSIVE Flatten(_)
Flatten(g) == IF g = <<>> THEN <<>> ELSE Head(g) \o Flatten(Tail(g))

\* t.reshape(h, w): the elements in row-major order, cut into h rows of w
ReshapeTo(g, h, w) ==
    LET flat == Flatten(g)
    IN  [r \in 1..h |-> SubSeq(flat, (r - 1) * w + 1, r * w)]

Height(g) == Len(g)
Width(g) == Len(g[1])

PadReshape ==
    /\ padPc = "reshape"
    /\ Xp' = ReshapeTo(X, Height(X), Width(X))
    /\ padPc' = "pad"
    /\ UNCHANGED <<X, pad, X_mirror_padded>>

\* (variant) the columns are added to the source grid itself
PadColumnsInPlace ==
    /\ padPc \in {"pad", "rows"}
    /\ Xp' = [r \in 1..Len(Xp) |-> ReflectAxis(Xp[r], pad[1], pad[2])]
    /\ X' = Xp'
    /\ padPc' = IF padPc = "pad" THEN "columns" ELSE "padded"
    /\ UNCHANGED <<pad, X_mirror_padded>>

\* the last dimension: pad[1] columns on the left, pad[2] on the right
PadColumns ==
    /\ padPc \in {"pad", "rows"}
    /\ Xp' = [r \in 1..Len(Xp) |-> ReflectAxis(Xp[r], pad[1], pad[2])]
    /\ padPc' = IF padPc = "pad" THEN "columns" ELSE "padded"
    /\ UNCHANGED <<X, pad, X_mirror_padded>>

\* (variant) the rows are mirrored from the source grid, not the grid in work
PadRowsFromSource ==
    /\ padPc \in {"pad", "columns"}
    /\ Xp' = ReflectAxis(X, pad[3], pad[4])
    /\ padPc' = IF padPc = "pad" THEN "rows" ELSE "padded"
    /\ UNCHANGED <<X, pad, X_mirror_padded>>

\* the second to last dimension: pad[3] rows on top, pad[4] at the bottom
PadRows ==
    /\ padPc \in {"pad", "columns"}
    /\ Xp' = ReflectAxis(Xp, pad[3], pad[4])
    /\ padPc' = IF padPc = "pad" THEN "rows" ELSE "padded"
    /\ UNCHANGED <<X, pad, X_mirror_padded>>

PadReturn ==
    /\ padPc = "padded"
    /\ Len(Flatten(Xp))
          = (Height(X) + pad[3] + pad[4]) * (Width(X) + pad[1] + pad[2])
    /\ X_mirror_padded'
          = ReshapeTo(Xp, Height(X) + pad[3] + pad[4], Width(X) + pad[1] + pad[2])
    /\ padPc' = "done"
    /\ UNCHANGED <<X, pad, Xp>>

\* The call of the notebook and what it printed.
NotebookGrid == Arange(8, 8)

NotebookPad == <<1, 1, 1, 1>>

\* X as printed after the padding
NotebookGridPrinted ==
    << << 1,  2,  3,  4,  5,  6,  7,  8>>,
       << 9, 10, 11, 12, 13, 14, 15, 16>>,
       <<17, 18, 19, 20, 21, 22, 23, 24>>,
       <<25, 26, 27, 28, 29, 30, 31, 32>>,
       <<33, 34, 35, 36, 37, 38, 39, 40>>,
       <<41, 42, 43, 44, 45, 46, 47, 48>>,
       <<49, 50, 51, 52, 53, 54, 55, 56>>,
       <<57, 58, 59, 60, 61, 62, 63, 64>> >>

NotebookPadded ==
    << <<10,  9, 10, 11, 12, 13, 14, 15, 16, 15>>,
       << 2,  1,  2,  3,  4,  5,  6,  7,  8,  7>>,
       <<10,  9, 10, 11, 12, 13, 14, 15, 16, 15>>,
       <<18, 17, 18, 19, 20, 21, 22, 23, 24, 23>>,
       <<26, 25, 26, 27, 28, 29, 30, 31, 32, 31>>,
       <<34, 33, 34, 35, 36, 37, 38, 39, 40, 39>>,
       <<42, 41, 42, 43, 44, 45, 46, 47, 48, 47>>,
       <<50, 49, 50, 51, 52, 53, 54, 55, 56, 55>>,
       <<58, 57, 58, 59, 60, 61, 62, 63, 64, 63>>,
       <<50, 49, 50, 51, 52, 53, 54, 55, 56, 55>> >>

\* The amounts stay below the extent of their axis, as in the notebook.
PadInit ==
    /\ \/ /\ X = NotebookGrid
          /\ pad = NotebookPad
       \/ \E h \in 1..MaxDim, w \in 1..MaxDim :
             /\ X = Arange(h, w)
             /\ pad \in (0..(w - 1)) \X (0..(w - 1)) \X (0..(h - 1)) \X (0..(h - 1))
    /\ Xp = <<>>
    /\ X_mirror_padded = <<>>
    /\ padPc = "reshape"

ConvIdle ==
    /\ X_shape = <<0, 0>>
    /\ conv2d = LazyConv2d(<<1>>, <<0>>, DefaultStride)
    /\ Xr = <<>>
    /\ padded = <<0, 0>>
    /\ axis = 1
    /\ pos = 0
    /\ count = 0
    /\ Y = <<>>
    /\ result = <<>>
    /\ pc = "idle"

InitPad == PadInit /\ ConvIdle /\ TransposeIdle

NextPad ==
    \/ PadReshape /\ UNCHANGED <<convVars, transposeVars>>
    \/ PadColumns /\ UNCHANGED <<convVars, transposeVars>>
    \/ PadRows /\ UNCHANGED <<convVars, transposeVars>>
    \/ PadReturn /\ UNCHANGED <<convVars, transposeVars>>

SpecPad == InitPad /\ [][NextPad]_vars

(***************************************************************************)
(* HalfStrideConvTranspose: nn.ConvTranspose1d(in_channels, out_channels,  *)
(* kernel_size, stride=2, padding=1, output_padding=1).  Every input       *)
(* element is spread over kernel_size output elements, stride apart from   *)
(* its neighbour's; padding elements are cut off both ends of what was     *)
(* written and output_padding elements added at the far end.               *)
(***************************************************************************)
TransposeStride == 2
TransposePadding == 1
OutputPadding == 1
OutChannels == 1

HalfStrideConvTranspose(kernel_size) == [kernel_size |-> kernel_size]

Max(a, b) == IF a >= b THEN a ELSE b

Spread ==
    /\ tPc = "spread"
    /\ tI < tX_shape[3]
    /\ extent' = Max(extent, tI * TransposeStride + model.kernel_size)
    /\ tI' = tI + 1
    /\ UNCHANGED <<model, tX_shape, output, tPc>>

\* (variant) output_padding left out
CropNoOutputPadding ==
    /\ tPc = "spread"
    /\ tI = tX_shape[3]
    /\ extent' = extent - 2 * TransposePadding
    /\ tPc' = "return"
    /\ UNCHANGED <<model, tX_shape, tI, output>>

Crop ==
    /\ tPc = "spread"
    /\ tI = tX_shape[3]
    /\ extent' = extent - 2 * TransposePadding + OutputPadding
    /\ tPc' = "return"
    /\ UNCHANGED <<model, tX_shape, tI, output>>

Forward ==
    /\ tPc = "return"
    /\ output' = <<tX_shape[1], OutChannels, extent>>
    /\ tPc' = "done"
    /\ UNCHANGED <<model, tX_shape, tI, extent>>

\* The call of the notebook: kernel_size 3 on torch.randn(1, 1, 10).
NotebookModel == HalfStrideConvTranspose(3)

NotebookSignal == <<1, 1, 10>>

\* The module returns at least one element.
TransposeAccepted(shape, m) ==
    (shape[3] - 1) * TransposeStride + m.kernel_size + OutputPadding
        > 2 * TransposePadding

TransposeInit ==
    /\ \/ /\ model = NotebookModel
          /\ tX_shape = NotebookSignal
       \/ /\ model \in {HalfStrideConvTranspose(k) : k \in 1..MaxTransposeKernel}
          /\ tX_shape \in {<<1, 1, l>> : l \in 1..MaxLength}
    /\ TransposeAccepted(tX_shape, model)
    /\ tI = 0
    /\ extent = 0
    /\ output = <<>>
    /\ tPc = "spread"

InitTranspose == TransposeInit /\ ConvIdle /\ PadIdle

NextTranspose ==
    \/ Spread /\ UNCHANGED <<convVars, padVars>>
    \/ Crop /\ UNCHANGED <<convVars, padVars>>
    \/ Forward /\ UNCHANGED <<convVars, padVars>>

SpecTranspose == InitTranspose /\ [][NextTranspose]_vars

(***************************************************************************)
(* Properties of comp_conv2d.                                              *)
(***************************************************************************)
Done == pc = "done"

Input(a) == X_shape[a]

\* the general formula on axis a of the call
Formula(a) == GeneralFormula(Input(a), Kernel(a), Padding(a), Stride(a))

\* C1: for every accepted call the size returned on an axis is
\* floor((input - kernel + padding + stride) / stride), padding being the total
\* padding of the axis; (8, 3, 2, 1) gives 8 and (8, 3, 2, 2) gives 4.
C1_GeneralFormula ==
    Done =>
        /\ \A a \in 1..2 : result[a] = Formula(a)
        /\ \A a \in 1..2 :
              /\ Input(a) = 8 /\ Kernel(a) = 3 /\ Padding(a) = 2
              => /\ Stride(a) = 1 => result[a] = 8
                 /\ Stride(a) = 2 => result[a] = 4

C1_Witness ==
    /\ Done
    /\ X_shape = NotebookX
    /\ conv2d = LazyConv2d(<<3>>, <<1>>, <<2>>)
    /\ result = <<4, 4>>

\* C5: with total padding = kernel - 1 the size returned is
\* floor((input + stride - 1) / stride); when the input is divisible by the
\* stride as well it is input / stride, so with stride 1 it is the input size.
C5_Simplified ==
    Done =>
        \A a \in 1..2 :
            Padding(a) = Kernel(a) - 1 =>
                /\ result[a] = SimplifiedFormula(Input(a), Stride(a))
                /\ Input(a) % Stride(a) = 0 =>
                      /\ result[a] = DivisibleFormula(Input(a), Stride(a))
                      /\ result[a] * Stride(a) = Input(a)
                /\ Stride(a) = 1 => result[a] = Input(a)

C5_Witness ==
    /\ Done
    /\ \E a \in 1..2 :
          /\ Padding(a) = Kernel(a) - 1
          /\ Kernel(a) > 1
          /\ Stride(a) > 1
          /\ Input(a) % Stride(a) # 0
          /\ result[a] = SimplifiedFormula(Input(a), Stride(a))
    /\ \E a \in 1..2 :
          /\ Padding(a) = Kernel(a) - 1
          /\ Kernel(a) > 1
          /\ Stride(a) > 1
          /\ Input(a) % Stride(a) = 0
          /\ result[a] * Stride(a) = Input(a)

\* C6 as stated: with padding = 0 and input mod stride = 0 the size returned
\* equals the "divisible" simplification input / stride, on each axis.
C6_DivisibleNoPadding ==
    Done =>
        \A a \in 1..2 :
            (Padding(a) = 0 /\ Input(a) % Stride(a) = 0)
                => result[a] = DivisibleFormula(Input(a), Stride(a))

\* C6 amended: with padding = 0 and input mod stride = 0 the size returned
\* equals input / stride when kernel <= stride, and is smaller than
\* input / stride when kernel > stride.
C6_DivisibleSmallKernel ==
    Done =>
        \A a \in 1..2 :
            (Padding(a) = 0 /\ Input(a) % Stride(a) = 0) =>
                /\ Kernel(a) <= Stride(a)
                      => result[a] = DivisibleFormula(Input(a), Stride(a))
                /\ Kernel(a) > Stride(a)
                      => result[a] < DivisibleFormula(Input(a), Stride(a))

C6_Witness ==
    /\ Done
    /\ \E a \in 1..2 :
          /\ Padding(a) = 0
          /\ Input(a) % Stride(a) = 0
          /\ Kernel(a) > 1
          /\ Kernel(a) <= Stride(a)
          /\ Input(a) > Stride(a)
          /\ result[a] = DivisibleFormula(Input(a), Stride(a))

ArgAt(arg, a) == IF Len(arg) = 1 THEN arg[1] ELSE arg[a]

\* C13: an argument given as one number v gives the shape the pair (v, v)
\* gives, and a pair (a, b) applies a to the height and b to the width only.
C13_ScalarAndPair ==
    /\ \A arg \in {conv2d.kernel_size, conv2d.padding, conv2d.stride} :
          /\ Len(arg) = 1 => Broadcast(arg) = Broadcast(<<arg[1], arg[1]>>)
          /\ Len(arg) = 2 => Broadcast(arg) = arg
    /\ Done =>
          \A a \in 1..2 :
              result[a] = GeneralFormula(X_shape[a],
                                         ArgAt(conv2d.kernel_size, a),
                                         2 * ArgAt(conv2d.padding, a),
                                         ArgAt(conv2d.stride, a))

C13_Witness ==
    /\ Done
    /\ Len(conv2d.kernel_size) = 1
    /\ Len(conv2d.padding) = 1
    /\ Len(conv2d.stride) = 2
    /\ conv2d.stride[1] # conv2d.stride[2]
    /\ X_shape[1] = X_shape[2]
    /\ result[1] # result[2]

\* C15: with stride 1 the size returned is n - k + p + 1, p the total
\* padding: p more than the unpadded size n - k + 1; an odd kernel k with
\* (k - 1) / 2 rows on each side gives n (8x8 input, kernel 3 with padding 1
\* a side and kernel (5, 3) with padding (2, 1) a side both give 8x8).
C15_StrideOne ==
    Done =>
        /\ \A a \in 1..2 :
              Stride(a) = 1 =>
                  /\ result[a] = PaddedFormula(Input(a), Kernel(a),
                                               2 * ArgAt(conv2d.padding, a))
                  /\ result[a] = (Input(a) - Kernel(a) + 1)
                                    + 2 * ArgAt(conv2d.padding, a)
                  /\ ( /\ Kernel(a) % 2 = 1
                       /\ 2 * ArgAt(conv2d.padding, a) = Kernel(a) - 1 )
                     => result[a] = Input(a)
        /\ ( /\ X_shape = NotebookX
             /\ conv2d \in { LazyConv2d(<<3>>, <<1>>, DefaultStride),
                             LazyConv2d(<<5, 3>>, <<2, 1>>, DefaultStride) } )
           => result = <<8, 8>>

C15_Witness ==
    /\ Done
    /\ X_shape = NotebookX
    /\ conv2d = LazyConv2d(<<5, 3>>, <<2, 1>>, DefaultStride)
    /\ result = <<8, 8>>

\* the offsets, in window steps, at which a window of k elements that starts
\* at offset 0 and advances by s lies within an axis of n elements
WindowPositions(n, k, s) == {i \in 0..n : i * s + k <= n}

\* C16: the size returned on an axis is the number of positions of a window
\* that starts at offset 0 of the padded axis (length input + padding),
\* advances by the stride and stops when it no longer fits.
C16_WindowCount ==
    Done =>
        \A a \in 1..2 :
            result[a] = Cardinality(WindowPositions(Input(a) + Padding(a),
                                                    Kernel(a), Stride(a)))

C16_Witness ==
    /\ Done
    /\ \E a \in 1..2 :
          /\ Stride(a) > 1
          /\ Kernel(a) > 1
          /\ Padding(a) > 0
          /\ (Input(a) + Padding(a) - Kernel(a)) % Stride(a) # 0
          /\ result[a] > 1
          /\ result[a] = Cardinality(WindowPositions(Input(a) + Padding(a),
                                                     Kernel(a), Stride(a)))

(***************************************************************************)
(* Properties of the mirror padding.                                       *)
(***************************************************************************)
PadDone == padPc = "done"

H == Height(X)
W == Width(X)

\* C8: the grid returned has height H + pad_top + pad_bottom and width
\* W + pad_left + pad_right, and its interior block (rows pad_top+1 ..
\* pad_top+H, columns pad_left+1 .. pad_left+W, counted from 1) equals the
\* source grid cell for cell.
C8_ShapeAndInterior ==
    PadDone =>
        /\ Len(X_mirror_padded) = H + pad[3] + pad[4]
        /\ \A i \in 1..Len(X_mirror_padded) :
              Len(X_mirror_padded[i]) = W + pad[1] + pad[2]
        /\ \A r \in 1..H, c \in 1..W :
              X_mirror_padded[pad[3] + r][pad[1] + c] = X[r][c]

C8_Witness ==
    /\ PadDone
    /\ H > 1
    /\ W > 1
    /\ pad[1] > pad[2]
    /\ pad[2] > 0
    /\ pad[4] > pad[3]
    /\ pad[3] > 0
    /\ Len(X_mirror_padded) = H + pad[3] + pad[4]
    /\ X_mirror_padded[pad[3] + H][pad[1] + W] = X[H][W]

\* the source index (counted from 0) of position i (counted from 0) of an
\* axis of extent n padded by p in front: k outside the near edge is k,
\* k outside the far edge is n - 1 - k
SourceIndex(i, p, n) ==
    IF i < p THEN p - i
    ELSE IF i >= p + n THEN (n - 1) - (i - (p + n) + 1)
    ELSE i - p

\* C9: on each axis of extent N the cell k positions outside the near edge
\* holds the source value at index k and the cell k positions outside the far
\* edge the source value at index N-1-k, the edge value never repeated, and
\* these indices lie in 0..N-1; the 8x8 grid 1..64 with pad 1 gets the
\* second row on top, the second to last row at the bottom, corners 10 and 55.
C9_ReflectIndex ==
    PadDone =>
        /\ \A i \in 0..(Len(X_mirror_padded) - 1) :
              /\ SourceIndex(i, pad[3], H) \in 0..(H - 1)
              /\ \A j \in 0..(Len(X_mirror_padded[i + 1]) - 1) :
                    /\ SourceIndex(j, pad[1], W) \in 0..(W - 1)
                    /\ X_mirror_padded[i + 1][j + 1]
                          = X[SourceIndex(i, pad[3], H) + 1]
                             [SourceIndex(j, pad[1], W) + 1]
        /\ (X = NotebookGrid /\ pad = NotebookPad) =>
              /\ X_mirror_padded = NotebookPadded
              /\ SubSeq(X_mirror_padded[1], 2, 9) = X[2]
              /\ SubSeq(X_mirror_padded[10], 2, 9) = X[7]
              /\ X_mirror_padded[1][1] = 10
              /\ X_mirror_padded[10][10] = 55

C9_Witness ==
    /\ PadDone
    /\ X = NotebookGrid
    /\ pad = NotebookPad
    /\ X_mirror_padded[1][1] = 10
    /\ X_mirror_padded[10][10] = 55

\* the rows of a grid padded top and bottom, and its columns left and right
RowsPadded(g) == ReflectAxis(g, pad[3], pad[4])
ColumnsPadded(g) == [r \in 1..Len(g) |-> ReflectAxis(g[r], pad[1], pad[2])]

TransposeDone == tPc = "done"

L == tX_shape[3]

\* C12 as stated: with stride 2, padding 1 and output padding 1 an input of
\* length L yields an output of length 2L for every kernel size.
C12_DoubleLengthAnyKernel ==
    TransposeDone => output[3] = 2 * L

\* C12 amended: with stride 2, padding 1 and output padding 1 an input of
\* length L yields an output of length 2L + k - 3, which is 2L for kernel
\* size 3 and only for it (the notebook: k = 3, L = 10, output length 20).
C12_DoubleLengthKernel3 ==
    TransposeDone =>
        /\ output = <<1, 1, 2 * L + model.kernel_size - 3>>
        /\ (output[3] = 2 * L) <=> (model.kernel_size = 3)
        /\ (model = NotebookModel /\ tX_shape = NotebookSignal)
              => output = <<1, 1, 20>>

C12_Witness ==
    /\ TransposeDone
    /\ model = NotebookModel
    /\ tX_shape = NotebookSignal
    /\ output = <<1, 1, 20>>

====
